---- MODULE Spec2Model ----
(***************************************************************************)
(* The Cal.com tool layer of app.py: the gateway _make_cal_request, the    *)
(* seven tool operations built on it, and the remote scheduling service    *)
(* they talk to.  One tool invocation runs at a time (the calls are        *)
(* synchronous and blocking); every HTTP call is a hand-over to the remote *)
(* service, which answers with any outcome the transport can deliver.      *)
(***************************************************************************)
EXTENDS Integers, Sequences, FiniteSets, TLC

(***************************************************************************)
(* Python / JSON values.  Every value carries its type, so that the        *)
(* dynamic checks of the code (truthiness, .get on a dict, .lower on a     *)
(* str, iteration over a list) are decided the way the interpreter decides *)
(* them.                                                                   *)
(***************************************************************************)
None == [t |-> "null"]

Str(s) == [t |-> "str", v |-> s]

Num(n) == [t |-> "num", v |-> n]

List(q) == [t |-> "list", v |-> q]

Obj(r) == [t |-> "obj", v |-> r]

Bool(b) == [t |-> "bool", v |-> b]

EmptyDict == [k \in {} |-> None]

\* bool(v): None, "", 0, [] and {} are false.
Truthy(v) ==
  CASE v.t = "null" -> FALSE
    [] v.t = "str"  -> v.v # ""
    [] v.t = "num"  -> v.v # 0
    [] v.t = "list" -> Len(v.v) > 0
    [] v.t = "obj"  -> DOMAIN v.v # {}
    [] v.t = "bool" -> v.v
    [] OTHER        -> TRUE

\* key in d
Has(d, k) == k \in DOMAIN d.v

\* d.get(k, default)
GetD(d, k, default) == IF k \in DOMAIN d.v THEN d.v[k] ELSE default

\* d.get(k)
Get(d, k) == GetD(d, k, None)

\* str(v), as an f-string renders a value.
Fmt(v) ==
  CASE v.t = "str"  -> v.v
    [] v.t = "num"  -> ToString(v.v)
    [] v.t = "null" -> "None"
    [] OTHER        -> "<object>"

\* json.dumps(v): the JSON text of v.  json.loads gives the value back; the
\* text itself is a str and has no keys.
json_dumps(v) == [t |-> "jsontext", v |-> v]

json_loads(s) == s.v

\* An exception leaving a function.
Raise(exc) == [t |-> "raise", v |-> exc]

(***************************************************************************)
(* Bounds of the model.                                                    *)
(***************************************************************************)
\* Longest list of bookings the remote service returns from GET bookings.
MaxList == 2

\* Most bookings the remote service creates in one run.
MaxCreated == 2

(***************************************************************************)
(* Inputs.                                                                 *)
(***************************************************************************)
\* os.getenv("CAL_API_KEY"): unset, set to the empty string, or set.
ApiKeys == {None, Str(""), Str("cal_live_k3y")}

BookingIds == {42, 99}

\* str.lower() on the addresses of the model.
Lower(s) ==
  CASE s = "X@Y.COM" -> "x@y.com"
    [] s = "X@y.com" -> "x@y.com"
    [] OTHER         -> s

\* datetime.strptime(s, '%Y-%m-%d').date().isoformat(): the normalised date,
\* or ValueError.  strptime accepts months and days without a leading zero.
ParseDate(s) ==
  CASE s = "2024-01-01" -> Str("2024-01-01")
    [] s = "2024-1-5"   -> Str("2024-01-05")
    [] OTHER            -> Raise("ValueError")

DateStrings == {"2024-01-01", "2024-1-5", "bad-date"}

NewStart == "2024-06-15T10:00:00Z"

NewEnd == "2024-06-15T11:00:00Z"

(***************************************************************************)
(* Control.  A function of app.py runs until it returns, raises, calls     *)
(* another function of app.py, or blocks in requests.request.  A segment   *)
(* of code ends in one of these four ways.                                 *)
(***************************************************************************)
Return(v) == [k |-> "ret", v |-> v]

\* fn(args) is called; the caller resumes in `frame` with the value returned.
\* The @tool wrapper around a tool function is taken to call the function it
\* wraps, so that reschedule_cal_event's calls of cancel_cal_event and
\* book_cal_event run their bodies.
Call(fn, args, frame) == [k |-> "call", fn |-> fn, args |-> args, frame |-> frame]

\* requests.request(...) is entered; `frame` resumes with the HTTP outcome.
Request(req, frame) == [k |-> "http", req |-> req, frame |-> frame]

Frame(fn, at, args, locals) == [fn |-> fn, at |-> at, args |-> args, locals |-> locals]

NoLocals == [none |-> None]

(***************************************************************************)
(* State.                                                                  *)
(***************************************************************************)
VARIABLES
  CAL_API_KEY_ENV,  \* the module-level credential, read once at import
  pc,               \* "idle", "wait" (blocked in requests.request), "recv", "done"
  stack,            \* the frames waiting for a value, innermost first
  request,          \* the HTTP request in flight
  http,             \* the outcome the transport delivers for it
  trace,            \* calls, returns and HTTP exchanges of this invocation
  result,           \* what the tool invocation returned (or raised)
  bookings,         \* remote service: ids of the bookings that exist
  created,          \* remote service: number of bookings created so far
  bookings0,        \* the remote bookings when the invocation started
  lost              \* requests the remote applied whose answer never arrived

vars == <<CAL_API_KEY_ENV, pc, stack, request, http, trace, result,
          bookings, created, bookings0, lost>>

CAL_API_BASE_URL == "https://api.cal.com/v1/"

_get_cal_api_key == CAL_API_KEY_ENV

KeyNotSetUI == "Cal.com API Key is not set. Please set it in the Streamlit UI."

KeyNotSetEnv == "Cal.com API Key is not set in environment variables. Please set CAL_API_KEY in your .env file."

(***************************************************************************)
(* _make_cal_request                                                       *)
(***************************************************************************)
\* Lines 24-35: the credential check, the request, the call of requests.request.
_make_cal_request(args) ==
  LET api_key == _get_cal_api_key IN
  IF ~Truthy(api_key)
    THEN Return(Obj([error |-> Str(KeyNotSetUI)]))
    ELSE LET params == IF args.params.t = "null" THEN EmptyDict ELSE args.params.v IN
         Request([method  |-> args.method,
                  url     |-> CAL_API_BASE_URL \o args.endpoint,
                  params  |-> Obj([apiKey |-> api_key] @@ params),
                  json    |-> args.json_data,
                  headers |-> Obj([ContentType |-> Str("application/json")])],
                 Frame("_make_cal_request", "request", args, NoLocals))

\* Variant: the HTTP error text leaves out the status code.
_make_cal_request_response_no_status(o) ==
  IF o.kind = "failure"
    THEN Obj([error |-> Str("Request error: " \o o.detail)])
    ELSE IF o.status >= 400 /\ o.status < 600
      THEN Obj([error |-> Str("HTTP error: " \o o.text)])
      ELSE IF o.status = 204
        THEN Obj([message |-> Str("Operation successful, no content returned.")])
        ELSE o.body

\* Lines 35-46: the outcome of requests.request mapped to the gateway's result.
\* raise_for_status raises HTTPError for 400 <= status < 600.
_make_cal_request_response(o) ==
  IF o.kind = "failure"
    THEN Obj([error |-> Str("Request error: " \o o.detail)])
    ELSE IF o.status >= 400 /\ o.status < 600
      THEN Obj([error |-> Str("HTTP error: " \o ToString(o.status) \o " - " \o o.text)])
      ELSE IF o.status = 204
        THEN Obj([message |-> Str("Operation successful, no content returned.")])
        ELSE o.body

GatewayArgs(endpoint, method, params, json_data) ==
  [endpoint |-> endpoint, method |-> method, params |-> params, json_data |-> json_data]

(***************************************************************************)
(* list_event_types                                                        *)
(***************************************************************************)
list_event_types(args) ==
  IF ~Truthy(_get_cal_api_key)
    THEN Return(json_dumps(Obj([error |-> Str(KeyNotSetUI)])))
    ELSE Call("_make_cal_request", GatewayArgs("event-types", "GET", None, None),
              Frame("list_event_types", "request", args, NoLocals))

\* Lines 59-63.  Iterating None raises TypeError; .get on a non-dict raises
\* AttributeError.
list_event_types_return(args, response) ==
  IF Has(response, "error") THEN Return(json_dumps(response))
  ELSE LET ets == GetD(response, "eventTypes", List(<<>>)) IN
    IF ets.t # "list" THEN Return(Raise("TypeError"))
    ELSE IF \E i \in 1..Len(ets.v) : ets.v[i].t # "obj" THEN Return(Raise("AttributeError"))
    ELSE Return(json_dumps(Obj([eventTypes |->
           List([i \in 1..Len(ets.v) |->
                  Obj([id    |-> Get(ets.v[i], "id"),
                       title |-> Get(ets.v[i], "title"),
                       slug  |-> Get(ets.v[i], "slug")])])])))

(***************************************************************************)
(* get_available_slots                                                     *)
(***************************************************************************)
get_available_slots(args) ==
  IF ~Truthy(_get_cal_api_key)
    THEN Return(json_dumps(Obj([error |-> Str(KeyNotSetUI)])))
    ELSE LET start_date == ParseDate(args.start_date_str)
             end_date   == ParseDate(args.end_date_str) IN
      IF start_date.t = "raise" \/ end_date.t = "raise"
        THEN Return(json_dumps(Obj([error |-> Str(
               "Invalid date format for start_date_str or end_date_str. Please use YYYY-MM-DD.")])))
        ELSE Call("_make_cal_request",
                  GatewayArgs("slots", "GET",
                              Obj([eventType |-> Str(args.event_type_slug),
                                   startDate |-> start_date,
                                   endDate   |-> end_date]),
                              None),
                  Frame("get_available_slots", "request", args, NoLocals))

get_available_slots_return(args, response) == Return(json_dumps(response))

(***************************************************************************)
(* book_cal_event                                                          *)
(***************************************************************************)
book_cal_event(args) ==
  IF ~Truthy(_get_cal_api_key)
    THEN Return(json_dumps(Obj([error |-> Str(KeyNotSetUI)])))
    ELSE Call("_make_cal_request",
              GatewayArgs("bookings", "POST", None,
                Obj([eventTypeId |-> args.event_type_id,
                     start       |-> args.start_time_iso,
                     end         |-> args.end_time_iso,
                     timeZone    |-> Str("America/Los_Angeles"),
                     responses   |-> Obj([email    |-> args.email,
                                          name     |-> args.name,
                                          metadata |-> Obj(EmptyDict),
                                          location |-> Str("integrations:cal")]),
                     metadata    |-> Obj([title       |-> args.title,
                                          description |-> args.description]),
                     language    |-> Str("en")])),
              Frame("book_cal_event", "request", args, NoLocals))

book_cal_event_return(args, response) == Return(json_dumps(response))

(***************************************************************************)
(* list_cal_events                                                         *)
(***************************************************************************)
\* Lines 151-154: the scan of one booking's attendees, which stops at the
\* first match.  attendee.get("email", "") is None when the key holds null,
\* and None.lower() raises AttributeError.
RECURSIVE AttendeeMatch(_, _, _)
AttendeeMatch(atts, i, email) ==
  IF i > Len(atts) THEN "no"
  ELSE IF atts[i].t # "obj" THEN "AttributeError"
  ELSE LET e == GetD(atts[i], "email", Str("")) IN
    IF e.t # "str" THEN "AttributeError"
    ELSE IF Lower(e.v) = Lower(email.v) THEN "yes"
    ELSE AttendeeMatch(atts, i + 1, email)

\* Lines 149-154: the bookings with a matching attendee, in order.
RECURSIVE FilterBookings(_, _, _)
FilterBookings(bs, i, email) ==
  IF i > Len(bs) THEN List(<<>>)
  ELSE IF bs[i].t # "obj" THEN Raise("AttributeError")
  ELSE LET atts == GetD(bs[i], "attendees", List(<<>>)) IN
    IF atts.t # "list" THEN Raise("TypeError")
    ELSE LET m == AttendeeMatch(atts.v, 1, email) IN
      IF m \notin {"yes", "no"} THEN Raise(m)
      ELSE LET rest == FilterBookings(bs, i + 1, email) IN
        IF rest.t = "raise" THEN rest
        ELSE IF m = "yes" THEN List(<<bs[i]>> \o rest.v)
        ELSE rest

HasEmail(a) == Truthy(Get(a, "email"))

\* Line 165: [a.get("email") for a in booking.get("attendees", []) if a.get("email")]
AttendeeEmails(booking) ==
  LET kept == SelectSeq(GetD(booking, "attendees", List(<<>>)).v, HasEmail) IN
  List([i \in 1..Len(kept) |-> Get(kept[i], "email")])

\* Lines 159-174.
Summarize(booking) ==
  Obj([id          |-> Get(booking, "id"),
       title       |-> Get(booking, "title"),
       description |-> Get(booking, "description"),
       startTime   |-> Get(booking, "startTime"),
       endTime     |-> Get(booking, "endTime"),
       attendees   |-> AttendeeEmails(booking)])

list_cal_events(args) ==
  IF ~Truthy(_get_cal_api_key)
    THEN Return(json_dumps(Obj([error |-> Str(KeyNotSetUI)])))
    ELSE Call("_make_cal_request", GatewayArgs("bookings", "GET", None, None),
              Frame("list_cal_events", "request", args, NoLocals))

\* Lines 142-176.
list_cal_events_return(args, response) ==
  IF Has(response, "error") THEN Return(json_dumps(response))
  ELSE LET
    bs == GetD(response, "bookings", List(<<>>))
    filtered_bookings ==
      IF Truthy(args.email)
        THEN IF bs.t # "list" THEN Raise("TypeError")
             ELSE FilterBookings(bs.v, 1, args.email)
        ELSE bs
  IN
    IF filtered_bookings.t = "raise" THEN Return(filtered_bookings)
    ELSE IF filtered_bookings.t # "list" THEN Return(Raise("TypeError"))
    ELSE LET fb == filtered_bookings.v IN
      IF \E i \in 1..Len(fb) : fb[i].t # "obj" THEN Return(Raise("AttributeError"))
      ELSE IF \E i \in 1..Len(fb) : GetD(fb[i], "attendees", List(<<>>)).t # "list"
        THEN Return(Raise("TypeError"))
      ELSE Return(json_dumps(Obj([bookings |->
             List([i \in 1..Len(fb) |-> Summarize(fb[i])])])))

(***************************************************************************)
(* cancel_cal_event                                                        *)
(***************************************************************************)
cancel_cal_event(args) ==
  IF ~Truthy(_get_cal_api_key)
    THEN Return(json_dumps(Obj([error |-> Str(KeyNotSetUI)])))
    ELSE Call("_make_cal_request",
              GatewayArgs("bookings/" \o ToString(args.booking_id), "DELETE", None, None),
              Frame("cancel_cal_event", "request", args, NoLocals))

\* Variant: success is reported whatever the gateway returned.
cancel_cal_event_return_always(args, response) ==
  Return(json_dumps(Obj([status  |-> Str("success"),
                         message |-> Str("Event with ID " \o ToString(args.booking_id)
                                         \o " cancelled successfully.")])))

\* Lines 191-194.
cancel_cal_event_return(args, response) ==
  IF Has(response, "error") THEN Return(json_dumps(response))
  ELSE Return(json_dumps(Obj([status  |-> Str("success"),
                              message |-> Str("Event with ID " \o ToString(args.booking_id)
                                              \o " cancelled successfully.")])))

(***************************************************************************)
(* reschedule_cal_event                                                    *)
(***************************************************************************)
reschedule_cal_event(args) ==
  IF ~Truthy(_get_cal_api_key)
    THEN Return(json_dumps(Obj([error |-> Str(KeyNotSetUI)])))
    ELSE Call("_make_cal_request",
              GatewayArgs("bookings/" \o ToString(args.booking_id), "GET", None, None),
              Frame("reschedule_cal_event", "fetch", args, NoLocals))

CouldNotFetch(booking_id) ==
  "Could not fetch full details for event with ID " \o ToString(booking_id)
    \o " for rescheduling."

MissingInformation ==
  "Missing crucial information (event type ID, attendee email, or attendee name) from original booking to reschedule."

\* full_booking_details.get("attendees")[0].get(key) if full_booking_details.get("attendees") else None
FirstAttendee(full, key) ==
  LET atts == Get(full, "attendees") IN
  IF ~Truthy(atts) THEN None
  ELSE IF atts.v[1].t # "obj" THEN Raise("AttributeError")
  ELSE Get(atts.v[1], key)

BookArgs(args, l) ==
  [event_type_id  |-> l.event_type_id,
   start_time_iso |-> Str(args.new_start_time_iso),
   end_time_iso   |-> Str(args.new_end_time_iso),
   email          |-> l.attendee_email,
   name           |-> l.attendee_name,
   title          |-> l.title,
   description    |-> l.description]

\* The locals of lines 219-227.
Extract(full) ==
  [event_type_id  |-> Get(full, "eventTypeId"),
   attendee_email |-> FirstAttendee(full, "email"),
   attendee_name  |-> FirstAttendee(full, "name"),
   title          |-> Get(full, "title"),
   description    |-> GetD(full, "description", Str(""))]

\* Variant: the new event is booked before the old one is cancelled.
reschedule_after_fetch_book_first(args, response) ==
  IF Has(response, "error") \/ ~Truthy(Get(response, "booking"))
    THEN Return(json_dumps(Obj([error |-> Str(CouldNotFetch(args.booking_id))])))
  ELSE LET l == Extract(response.v.booking) IN
    IF ~Truthy(l.event_type_id) \/ ~Truthy(l.attendee_email) \/ ~Truthy(l.attendee_name)
      THEN Return(json_dumps(Obj([error |-> Str(MissingInformation)])))
    ELSE Call("book_cal_event", BookArgs(args, l),
              Frame("reschedule_cal_event", "cancel", args, l))

\* Variant: the old event is cancelled before the fetched booking is checked.
reschedule_after_fetch_cancel_first(args, response) ==
  IF Has(response, "error") \/ ~Truthy(Get(response, "booking"))
    THEN Return(json_dumps(Obj([error |-> Str(CouldNotFetch(args.booking_id))])))
  ELSE Call("cancel_cal_event", [booking_id |-> args.booking_id],
            Frame("reschedule_cal_event", "cancel", args, Extract(response.v.booking)))

\* Lines 214-230: the fetched booking is checked, then the old event is cancelled.
reschedule_after_fetch(args, response) ==
  IF Has(response, "error") \/ ~Truthy(Get(response, "booking"))
    THEN Return(json_dumps(Obj([error |-> Str(CouldNotFetch(args.booking_id))])))
  ELSE IF response.v.booking.t # "obj" THEN Return(Raise("AttributeError"))
  ELSE LET l == Extract(response.v.booking) IN
    IF l.attendee_email.t = "raise" THEN Return(l.attendee_email)
    ELSE IF ~Truthy(l.event_type_id) \/ ~Truthy(l.attendee_email) \/ ~Truthy(l.attendee_name)
      THEN Return(json_dumps(Obj([error |-> Str(MissingInformation)])))
    ELSE Call("cancel_cal_event", [booking_id |-> args.booking_id],
              Frame("reschedule_cal_event", "cancel", args, l))

FailedToCancel(booking_id, detail) ==
  "Failed to cancel old event with ID " \o ToString(booking_id)
    \o " during reschedule: " \o detail

\* Lines 230-235: the old event is cancelled, then the new one is booked.
reschedule_after_cancel(args, l, cancel_return) ==
  LET cancel_status == json_loads(cancel_return) IN
  IF Get(cancel_status, "status") # Str("success")
    THEN Return(json_dumps(Obj([error |-> Str(
           FailedToCancel(args.booking_id,
                          Fmt(GetD(cancel_status, "message", Str("Unknown error")))))])))
    ELSE Call("book_cal_event", BookArgs(args, l),
              Frame("reschedule_cal_event", "book", args, l))

CancelledButNotBooked(detail) ==
  "Event cancelled, but failed to book new event during reschedule: " \o detail
    \o ". Please try booking a new event manually."

\* Variant: a failed booking is reported as a success.
reschedule_after_book_swallow(args, l, book_return) ==
  Return(json_dumps(Obj([status      |-> Str("success"),
                         message     |-> Str("Event " \o ToString(args.booking_id)
                                             \o " successfully rescheduled."),
                         new_booking |-> json_loads(book_return)])))

\* Lines 235-240.
reschedule_after_book(args, l, book_return) ==
  LET new_booking_response == json_loads(book_return) IN
  IF Has(new_booking_response, "error")
    THEN Return(json_dumps(Obj([error |-> Str(
           CancelledButNotBooked(Fmt(GetD(new_booking_response, "error",
                                          Str("Unknown error")))))])))
    ELSE Return(json_dumps(Obj([status      |-> Str("success"),
                                message     |-> Str("Event " \o ToString(args.booking_id)
                                                    \o " successfully rescheduled."),
                                new_booking |-> new_booking_response])))

(***************************************************************************)
(* create_cal_event_type                                                   *)
(***************************************************************************)
\* Variant: the missing credential is raised instead of returned.
create_cal_event_type_raises(args) ==
  IF ~Truthy(_get_cal_api_key)
    THEN Return(Raise("ValueError"))
    ELSE Call("_make_cal_request",
              GatewayArgs("event-types", "POST", None,
                Obj([title       |-> Str(args.title),
                     slug        |-> Str(args.slug),
                     length      |-> Num(args.length),
                     description |-> Str(args.description),
                     hidden      |-> args.hidden])),
              Frame("create_cal_event_type", "request", args, NoLocals))

create_cal_event_type(args) ==
  IF ~Truthy(_get_cal_api_key)
    THEN Return(json_dumps(Obj([error |-> Str(KeyNotSetEnv)])))
    ELSE Call("_make_cal_request",
              GatewayArgs("event-types", "POST", None,
                Obj([title       |-> Str(args.title),
                     slug        |-> Str(args.slug),
                     length      |-> Num(args.length),
                     description |-> Str(args.description),
                     hidden      |-> args.hidden])),
              Frame("create_cal_event_type", "request", args, NoLocals))

create_cal_event_type_return(args, response) == Return(json_dumps(response))

(***************************************************************************)
(* The interpreter: a call pushes the caller's frame, a return resumes the *)
(* frame on top, an exception unwinds every frame (no function of app.py   *)
(* catches what a callee raises), requests.request blocks.                 *)
(***************************************************************************)
Begin(fn, args) ==
  CASE fn = "_make_cal_request"     -> _make_cal_request(args)
    [] fn = "list_event_types"      -> list_event_types(args)
    [] fn = "get_available_slots"   -> get_available_slots(args)
    [] fn = "book_cal_event"        -> book_cal_event(args)
    [] fn = "list_cal_events"       -> list_cal_events(args)
    [] fn = "cancel_cal_event"      -> cancel_cal_event(args)
    [] fn = "reschedule_cal_event"  -> reschedule_cal_event(args)
    [] fn = "create_cal_event_type" -> create_cal_event_type(args)

Continue(frame, value) ==
  CASE frame.fn = "_make_cal_request"     -> Return(_make_cal_request_response(value))
    [] frame.fn = "list_event_types"      -> list_event_types_return(frame.args, value)
    [] frame.fn = "get_available_slots"   -> get_available_slots_return(frame.args, value)
    [] frame.fn = "book_cal_event"        -> book_cal_event_return(frame.args, value)
    [] frame.fn = "list_cal_events"       -> list_cal_events_return(frame.args, value)
    [] frame.fn = "cancel_cal_event"      -> cancel_cal_event_return(frame.args, value)
    [] frame.fn = "create_cal_event_type" -> create_cal_event_type_return(frame.args, value)
    [] frame.fn = "reschedule_cal_event" /\ frame.at = "fetch" ->
         reschedule_after_fetch(frame.args, value)
    [] frame.fn = "reschedule_cal_event" /\ frame.at = "cancel" ->
         reschedule_after_cancel(frame.args, frame.locals, value)
    [] frame.fn = "reschedule_cal_event" /\ frame.at = "book" ->
         reschedule_after_book(frame.args, frame.locals, value)

Event(ev, fn, v) == [ev |-> ev, fn |-> fn, v |-> v]

NoRequest == [method |-> "", url |-> "", params |-> None, json |-> None, headers |-> None]

NoHttp == [kind |-> "none", status |-> 0, text |-> "", body |-> None, detail |-> ""]

\* Runs function fn from the end of its segment `seg` until the invocation
\* blocks in requests.request or leaves the tool.
RECURSIVE Run(_, _, _, _)
Run(stk, fn, seg, tr) ==
  IF seg.k = "http"
    THEN [pc |-> "wait", stack |-> <<seg.frame>> \o stk, request |-> seg.req,
          result |-> None, trace |-> Append(tr, Event("http", fn, seg.req))]
  ELSE IF seg.k = "call"
    THEN Run(<<seg.frame>> \o stk, seg.fn, Begin(seg.fn, seg.args),
             Append(tr, Event("call", seg.fn, seg.args)))
  ELSE IF seg.v.t = "raise"
    THEN [pc |-> "done", stack |-> <<>>, request |-> NoRequest,
          result |-> seg.v, trace |-> Append(tr, Event("raise", fn, seg.v))]
  ELSE IF stk = <<>>
    THEN [pc |-> "done", stack |-> <<>>, request |-> NoRequest,
          result |-> seg.v, trace |-> Append(tr, Event("return", fn, seg.v))]
  ELSE Run(Tail(stk), Head(stk).fn, Continue(Head(stk), seg.v),
           Append(tr, Event("return", fn, seg.v)))

(***************************************************************************)
(* What the remote service may answer.                                     *)
(***************************************************************************)
Alice == Obj([email |-> Str("a@b.com"), name |-> Str("Alice")])

Xavier == Obj([email |-> Str("x@y.com"), name |-> Str("Xavier")])

Xena == Obj([email |-> Str("X@Y.COM"), name |-> Str("Xena")])

NullMail == Obj([email |-> None, name |-> Str("Bob")])

NoMail == Obj([name |-> Str("Carol")])

NoName == Obj([email |-> Str("a@b.com")])

BaseBooking ==
  [id |-> Num(42), eventTypeId |-> Num(5), title |-> Str("Sync"),
   startTime |-> Str("2024-06-14T10:00:00Z"), endTime |-> Str("2024-06-14T11:00:00Z")]

\* Bookings as GET bookings lists them: well-formed ones, and ones with
\* missing or null fields.
ListSamples ==
  { Obj(BaseBooking @@ [description |-> Str("Weekly"), attendees |-> List(<<Alice>>)]),
    Obj(BaseBooking @@ [attendees |-> List(<<Xena, Alice>>)]),
    Obj(BaseBooking @@ [description |-> None, attendees |-> List(<<NoMail, Xavier>>)]),
    Obj(BaseBooking @@ [attendees |-> List(<<>>)]),
    Obj(BaseBooking),
    Obj(BaseBooking @@ [attendees |-> List(<<Xavier, NullMail>>)]),
    Obj(BaseBooking @@ [attendees |-> List(<<NullMail, Xavier>>)]) }

\* Bookings as GET bookings/{id} returns them.
FetchSamples ==
  ListSamples \cup
  { Obj(BaseBooking @@ [description |-> None, attendees |-> List(<<Alice>>)]),
    Obj([eventTypeId |-> None] @@ BaseBooking @@ [attendees |-> List(<<Alice>>)]),
    Obj([id |-> Num(42), attendees |-> List(<<Alice>>)]),
    Obj(BaseBooking @@ [attendees |-> List(<<NoName>>)]),
    Obj([id |-> Num(42), eventTypeId |-> Num(5), attendees |-> List(<<Alice>>)]) }

ListBodies ==
  { Obj(EmptyDict) } \cup
  { Obj([bookings |-> List(q)]) :
      q \in UNION { [1..n -> ListSamples] : n \in 0..MaxList } }

FetchBodies ==
  { Obj(EmptyDict), Obj([booking |-> None]), Obj([booking |-> Obj(EmptyDict)]) } \cup
  { Obj([booking |-> b]) : b \in FetchSamples }

EventTypeBodies ==
  { Obj(EmptyDict),
    Obj([eventTypes |-> List(<<>>)]),
    Obj([eventTypes |-> List(<<Obj([id |-> Num(5), title |-> Str("30 Minute Meeting"),
                                    slug |-> Str("30min"), length |-> Num(30)]),
                               Obj([id |-> Num(6)])>>)]) }

NewId(n) == 100 + n

Url(endpoint) == CAL_API_BASE_URL \o endpoint

IsBookingUrl(url) == \E i \in BookingIds : url = Url("bookings/" \o ToString(i))

BookingOf(url) == CHOOSE i \in BookingIds : url = Url("bookings/" \o ToString(i))

\* The JSON bodies a 200 may carry for a request.
Bodies(req) ==
  CASE req.method = "GET"    /\ req.url = Url("event-types") -> EventTypeBodies
    [] req.method = "POST"   /\ req.url = Url("event-types") ->
         { Obj([event_type |-> Obj([id |-> Num(7)])]) }
    [] req.method = "GET"    /\ req.url = Url("slots") -> { Obj([slots |-> Obj(EmptyDict)]) }
    [] req.method = "GET"    /\ req.url = Url("bookings") -> ListBodies
    [] req.method = "POST"   /\ req.url = Url("bookings") ->
         { Obj([id |-> Num(NewId(created)), eventTypeId |-> req.json.v.eventTypeId,
                startTime |-> req.json.v.start, endTime |-> req.json.v.end]) }
    [] req.method = "GET"    /\ IsBookingUrl(req.url) -> FetchBodies
    [] req.method = "DELETE" /\ IsBookingUrl(req.url) ->
         { Obj([message |-> Str("Booking successfully cancelled")]) }
    [] OTHER -> { Obj(EmptyDict) }

Creates(req) == req.method = "POST" /\ req.url = Url("bookings")

Deletes(req) == req.method = "DELETE" /\ IsBookingUrl(req.url)

\* The remote service can still apply the request within the bounds.
Applicable(req) == Creates(req) => created < MaxCreated

\* The remote service carries the request out.
Applied(req) ==
  /\ bookings' = IF Creates(req) THEN bookings \cup {NewId(created)}
                 ELSE IF Deletes(req) THEN bookings \ {BookingOf(req.url)}
                 ELSE bookings
  /\ created' = IF Creates(req) THEN created + 1 ELSE created

OkStatuses == {200, 201}

ErrorStatuses == {400, 404, 500}

ErrorTexts == {"", "Booking not found"}

(***************************************************************************)
(* Actions.                                                                *)
(***************************************************************************)
Init ==
  /\ CAL_API_KEY_ENV \in ApiKeys
  /\ pc = "idle"
  /\ stack = <<>>
  /\ request = NoRequest
  /\ http = NoHttp
  /\ trace = <<>>
  /\ result = None
  /\ bookings = BookingIds
  /\ created = 0
  /\ bookings0 = BookingIds
  /\ lost = {}

\* The agent calls tool fn with args; the tool runs up to its first HTTP call.
Invoke(fn, args) ==
  /\ pc = "idle"
  /\ LET r == Run(<<>>, fn, Begin(fn, args), <<Event("call", fn, args)>>) IN
       /\ pc' = r.pc
       /\ stack' = r.stack
       /\ request' = r.request
       /\ result' = r.result
       /\ trace' = r.trace
  /\ bookings0' = bookings
  /\ lost' = {}
  /\ UNCHANGED <<CAL_API_KEY_ENV, http, bookings, created>>

Invoke_list_event_types == Invoke("list_event_types", [none |-> None])

Invoke_get_available_slots ==
  \E s \in DateStrings, e \in DateStrings :
    Invoke("get_available_slots",
           [event_type_slug |-> "30min", start_date_str |-> s, end_date_str |-> e])

Invoke_book_cal_event ==
  \E d \in {Str(""), Str("Weekly")} :
    Invoke("book_cal_event",
           [event_type_id |-> Num(5), start_time_iso |-> Str(NewStart),
            end_time_iso |-> Str(NewEnd), email |-> Str("a@b.com"),
            name |-> Str("Alice"), title |-> Str("Sync"), description |-> d])

Invoke_list_cal_events ==
  \E email \in {None, Str(""), Str("x@y.com"), Str("X@y.com")} :
    Invoke("list_cal_events", [email |-> email])

Invoke_cancel_cal_event ==
  \E id \in BookingIds : Invoke("cancel_cal_event", [booking_id |-> id])

Invoke_reschedule_cal_event ==
  \E id \in BookingIds :
    Invoke("reschedule_cal_event",
           [booking_id |-> id, new_start_time_iso |-> NewStart,
            new_end_time_iso |-> NewEnd])

Invoke_create_cal_event_type ==
  \E h \in BOOLEAN :
    Invoke("create_cal_event_type",
           [title |-> "30 Minute Meeting", slug |-> "30min", length |-> 30,
            description |-> "", hidden |-> Bool(h)])

Answer(o) ==
  /\ http' = o
  /\ pc' = "recv"
  /\ UNCHANGED <<CAL_API_KEY_ENV, stack, request, trace, result, bookings0>>

\* The remote service carries the request out and answers 200 or 201 with a
\* JSON body.
RemoteOk ==
  /\ pc = "wait"
  /\ Applicable(request)
  /\ \E body \in Bodies(request), status \in OkStatuses :
       Answer([kind |-> "response", status |-> status, text |-> "", body |-> body,
               detail |-> ""])
  /\ Applied(request)
  /\ UNCHANGED lost

\* The remote service carries the request out and answers 204, without a body.
RemoteNoContent ==
  /\ pc = "wait"
  /\ Applicable(request)
  /\ Answer([kind |-> "response", status |-> 204, text |-> "", body |-> None,
             detail |-> ""])
  /\ Applied(request)
  /\ UNCHANGED lost

\* The remote service refuses the request with a 4xx or 5xx.
RemoteRejects ==
  /\ pc = "wait"
  /\ \E status \in ErrorStatuses, text \in ErrorTexts :
       Answer([kind |-> "response", status |-> status, text |-> text, body |-> None,
               detail |-> ""])
  /\ UNCHANGED <<bookings, created, lost>>

\* The request never reaches the remote service (DNS, connection refused).
ConnectionFails ==
  /\ pc = "wait"
  /\ Answer([kind |-> "failure", status |-> 0, text |-> "", body |-> None,
             detail |-> "Connection refused"])
  /\ UNCHANGED <<bookings, created, lost>>

\* The remote service carries the request out, and its answer is lost on the
\* way back (timeout, connection reset).
AnswerLost ==
  /\ pc = "wait"
  /\ Applicable(request)
  /\ Answer([kind |-> "failure", status |-> 0, text |-> "", body |-> None,
             detail |-> "Read timed out."])
  /\ Applied(request)
  /\ lost' = lost \cup {request.method}

\* requests.request returns or raises; the code runs on to the next HTTP call
\* or to the end of the tool.
Resume ==
  /\ pc = "recv"
  /\ LET r == Run(Tail(stack), Head(stack).fn, Continue(Head(stack), http),
                  Append(trace, Event("outcome", "requests.request", http))) IN
       /\ pc' = r.pc
       /\ stack' = r.stack
       /\ request' = r.request
       /\ result' = r.result
       /\ trace' = r.trace
  /\ http' = NoHttp
  /\ UNCHANGED <<CAL_API_KEY_ENV, bookings, created, bookings0, lost>>

\* The agent has read the result; the next tool call may start.
Finish ==
  /\ pc = "done"
  /\ pc' = "idle"
  /\ trace' = <<>>
  /\ result' = None
  /\ lost' = {}
  /\ bookings0' = bookings
  /\ UNCHANGED <<CAL_API_KEY_ENV, stack, request, http, bookings, created>>

Next ==
  \/ Invoke_list_event_types
  \/ Invoke_get_available_slots
  \/ Invoke_book_cal_event
  \/ Invoke_list_cal_events
  \/ Invoke_cancel_cal_event
  \/ Invoke_reschedule_cal_event
  \/ Invoke_create_cal_event_type
  \/ RemoteOk
  \/ RemoteNoContent
  \/ RemoteRejects
  \/ ConnectionFails
  \/ AnswerLost
  \/ Resume
  \/ Finish

Spec == Init /\ [][Next]_vars

(***************************************************************************)
(* Reading the trace of an invocation.                                     *)
(***************************************************************************)
IsHttp(e) == e.ev = "http"

IsOutcome(e) == e.ev = "outcome"

IsGatewayCall(e) == e.ev = "call" /\ e.fn = "_make_cal_request"

IsGatewayReturn(e) == e.ev = "return" /\ e.fn = "_make_cal_request"

IsCancelCall(e) == e.ev = "call" /\ e.fn = "cancel_cal_event"

IsCancelReturn(e) == e.ev = "return" /\ e.fn = "cancel_cal_event"

IsBookCall(e) == e.ev = "call" /\ e.fn = "book_cal_event"

IsBookReturn(e) == e.ev = "return" /\ e.fn = "book_cal_event"

\* The HTTP calls issued, as a transport mock records them.
HttpCalls == SelectSeq(trace, IsHttp)

Outcomes == SelectSeq(trace, IsOutcome)

GatewayCalls == SelectSeq(trace, IsGatewayCall)

GatewayReturns == SelectSeq(trace, IsGatewayReturn)

CancelCalls == SelectSeq(trace, IsCancelCall)

CancelReturns == SelectSeq(trace, IsCancelReturn)

BookCalls == SelectSeq(trace, IsBookCall)

BookReturns == SelectSeq(trace, IsBookReturn)

Invoked(fn) == trace # <<>> /\ trace[1].fn = fn

StartsWith(s, p) == Len(s) >= Len(p) /\ SubSeq(s, 1, Len(p)) = p

Contains(s, d) == \E i \in 1..(Len(s) - Len(d) + 1) : SubSeq(s, i, i + Len(d) - 1) = d

\* The Operation Result {error: string}.
IsErrorEnvelope(res) ==
  /\ res.t = "jsontext"
  /\ res.v.t = "obj"
  /\ DOMAIN res.v.v = {"error"}
  /\ res.v.v.error.t = "str"

ErrorText(res) == IF IsErrorEnvelope(res) THEN res.v.v.error.v ELSE ""

Method(i) == HttpCalls[i].v.method

UrlOf(i) == HttpCalls[i].v.url

RescheduleId == trace[1].v.booking_id

\* The booking of the first gateway result has key k with a value that is not null.
FetchedHas(k) ==
  /\ Len(GatewayReturns) >= 1
  /\ Has(GatewayReturns[1].v, "booking")
  /\ GatewayReturns[1].v.v.booking.t = "obj"
  /\ Get(GatewayReturns[1].v.v.booking, k) # None

FetchedFirstAttendeeHas(k) ==
  /\ FetchedHas("attendees")
  /\ GatewayReturns[1].v.v.booking.v.attendees.t = "list"
  /\ Len(GatewayReturns[1].v.v.booking.v.attendees.v) >= 1
  /\ Get(GatewayReturns[1].v.v.booking.v.attendees.v[1], k) # None

CancelReportedSuccess ==
  /\ Len(CancelReturns) >= 1
  /\ Get(json_loads(CancelReturns[1].v), "status") = Str("success")

FetchFailed ==
  /\ Len(GatewayReturns) >= 1
  /\ \/ Has(GatewayReturns[1].v, "error")
     \/ ~Has(GatewayReturns[1].v, "booking")
     \/ GatewayReturns[1].v.v.booking = None

(***************************************************************************)
(* C1.  With the credential absent (unset or empty), every one of the      *)
(* seven operations returns the configuration-error envelope, of the same  *)
(* shape as the gateway's own result for a missing key ({error: string},   *)
(* the text beginning "Cal.com API Key is not set"), and no HTTP call is   *)
(* issued during the invocation.                                           *)
(***************************************************************************)
C1_MissingCredentialShortCircuits ==
  ~Truthy(CAL_API_KEY_ENV) =>
    /\ pc \in {"idle", "done"}
    /\ HttpCalls = <<>>
    /\ pc = "done" =>
         LET gw == _make_cal_request(GatewayArgs("event-types", "GET", None, None)).v IN
           /\ IsErrorEnvelope(result)
           /\ DOMAIN result.v.v = DOMAIN gw.v
           /\ result.v.v.error.t = gw.v.error.t
           /\ StartsWith(result.v.v.error.v, "Cal.com API Key is not set")
           /\ StartsWith(gw.v.error.v, "Cal.com API Key is not set")

C1_Witness ==
  /\ pc = "done"
  /\ ~Truthy(CAL_API_KEY_ENV)
  /\ Invoked("create_cal_event_type")
  /\ IsErrorEnvelope(result)

(***************************************************************************)
(* C2.  In reschedule_cal_event the HTTP calls are a prefix of             *)
(* GET bookings/{id}, DELETE bookings/{id}, POST bookings.  The DELETE is  *)
(* issued only after the GET returned a booking with event type id, first  *)
(* attendee email and name present; the POST only after Cancel reported    *)
(* success; when the fetch fails neither Cancel nor Book is invoked.       *)
(***************************************************************************)
C2_FetchCancelBookOrder ==
  Invoked("reschedule_cal_event") =>
    /\ Len(HttpCalls) <= 3
    /\ Len(HttpCalls) >= 1 =>
         Method(1) = "GET" /\ UrlOf(1) = Url("bookings/" \o ToString(RescheduleId))
    /\ Len(HttpCalls) >= 2 =>
         /\ Method(2) = "DELETE"
         /\ UrlOf(2) = Url("bookings/" \o ToString(RescheduleId))
         /\ FetchedHas("eventTypeId")
         /\ FetchedFirstAttendeeHas("email")
         /\ FetchedFirstAttendeeHas("name")
    /\ Len(HttpCalls) >= 3 =>
         /\ Method(3) = "POST"
         /\ UrlOf(3) = Url("bookings")
         /\ CancelReportedSuccess
    /\ FetchFailed => CancelCalls = <<>> /\ BookCalls = <<>> /\ Len(HttpCalls) = 1

C2_Witness ==
  /\ pc = "done"
  /\ Invoked("reschedule_cal_event")
  /\ Len(HttpCalls) = 3
  /\ Method(2) = "DELETE"
  /\ Method(3) = "POST"

BookReturnedError ==
  /\ Len(BookReturns) >= 1
  /\ Has(json_loads(BookReturns[1].v), "error")

(***************************************************************************)
(* C3.  In reschedule_cal_event, when fetch and cancel succeeded and Book  *)
(* returned an error, the result is an error envelope saying that the old  *)
(* event is cancelled, that booking the new one failed and that it must be *)
(* booked manually; Cancel and Book were each invoked exactly once, with   *)
(* one DELETE and one POST.                                                *)
(***************************************************************************)
C3_BookFailureAfterCancel ==
  (pc = "done" /\ Invoked("reschedule_cal_event") /\ CancelReportedSuccess
     /\ BookReturnedError) =>
    /\ IsErrorEnvelope(result)
    /\ StartsWith(ErrorText(result), "Event cancelled, but failed to book new event")
    /\ Contains(ErrorText(result), "Please try booking a new event manually")
    /\ Len(CancelCalls) = 1
    /\ Len(BookCalls) = 1
    /\ Len(HttpCalls) = 3
    /\ Method(2) = "DELETE"
    /\ Method(3) = "POST"

C3_Witness ==
  /\ pc = "done"
  /\ Invoked("reschedule_cal_event")
  /\ CancelReportedSuccess
  /\ BookReturnedError
  /\ IsErrorEnvelope(result)

RescheduleSucceeded ==
  /\ pc = "done"
  /\ Invoked("reschedule_cal_event")
  /\ result.t = "jsontext"
  /\ Get(result.v, "status") = Str("success")

IndexOf(Test(_)) == CHOOSE i \in 1..Len(trace) : Test(trace[i])

(***************************************************************************)
(* C4.  When fetch, cancel and book all succeed, Cancel is invoked with    *)
(* the original id and then Book with the fetched eventTypeId, the new     *)
(* start and end, the first attendee's email and name, the fetched title   *)
(* and the fetched description, the empty string when the booking has no   *)
(* description (the key is missing or null); the result is                 *)
(* {status: "success", message, new_booking} with new_booking the result   *)
(* of Book.                                                                *)
(***************************************************************************)
C4_SuccessfulReschedule ==
  RescheduleSucceeded =>
    LET b == GatewayReturns[1].v.v.booking IN
      /\ Len(CancelCalls) = 1
      /\ Len(BookCalls) = 1
      /\ CancelCalls[1].v = [booking_id |-> RescheduleId]
      /\ IndexOf(IsCancelCall) < IndexOf(IsBookCall)
      /\ BookCalls[1].v =
           [event_type_id  |-> Get(b, "eventTypeId"),
            start_time_iso |-> Str(trace[1].v.new_start_time_iso),
            end_time_iso   |-> Str(trace[1].v.new_end_time_iso),
            email          |-> Get(b.v.attendees.v[1], "email"),
            name           |-> Get(b.v.attendees.v[1], "name"),
            title          |-> Get(b, "title"),
            description    |-> IF Get(b, "description") = None THEN Str("")
                               ELSE Get(b, "description")]
      /\ DOMAIN result.v.v = {"status", "message", "new_booking"}
      /\ result.v.v.new_booking = json_loads(BookReturns[1].v)

(***************************************************************************)
(* C5.  Every operation, for every remote outcome, returns exactly one     *)
(* Operation Result, a JSON text, and never ends by raising.               *)
(***************************************************************************)
C5_NeverRaises ==
  pc = "done" => result.t = "jsontext" /\ result.v.t = "obj"

RescheduleEndedWith(prefix) ==
  /\ pc = "done"
  /\ Invoked("reschedule_cal_event")
  /\ IsErrorEnvelope(result)
  /\ StartsWith(ErrorText(result), prefix)

FailedBeforeRequest == RescheduleEndedWith("Cal.com API Key is not set")

FailedToFetch == RescheduleEndedWith("Could not fetch full details")

FailedMissingInformation == RescheduleEndedWith("Missing crucial information")

FailedInCancel == RescheduleEndedWith("Failed to cancel old event")

FailedInBook == RescheduleEndedWith("Event cancelled, but failed to book new event")

(***************************************************************************)
(* C6 as stated.  Whenever reschedule_cal_event ends with an error that    *)
(* reports a failure before cancelling (credential, could not fetch,       *)
(* missing information, failed to cancel), the remote bookings are what    *)
(* they were when the invocation started, whatever the remote calls did.   *)
(***************************************************************************)
C6_NoMutationBeforeCancelError ==
  (FailedBeforeRequest \/ FailedToFetch \/ FailedMissingInformation \/ FailedInCancel)
    => bookings = bookings0

(***************************************************************************)
(* C6 as amended.  After the credential, could-not-fetch and               *)
(* missing-information errors the remote bookings are unchanged and no     *)
(* DELETE or POST was issued; after the failed-to-cancel error no POST was *)
(* issued and no booking was created, and the original booking still       *)
(* exists unless the remote service carried out the DELETE and its answer  *)
(* was lost.                                                               *)
(***************************************************************************)
C6_NoMutationUnlessDeleteAnswerLost ==
  /\ (FailedBeforeRequest \/ FailedToFetch \/ FailedMissingInformation) =>
       /\ bookings = bookings0
       /\ \A i \in 1..Len(HttpCalls) : Method(i) = "GET"
  /\ FailedInCancel =>
       /\ \A i \in 1..Len(HttpCalls) : Method(i) # "POST"
       /\ bookings \subseteq bookings0
       /\ \/ bookings = bookings0
          \/ "DELETE" \in lost /\ bookings = bookings0 \ {RescheduleId}

C6_Witness ==
  /\ FailedInCancel
  /\ RescheduleId \in bookings0
  /\ Len(HttpCalls) = 2
  /\ bookings = bookings0

(***************************************************************************)
(* C7 as stated.  Whenever reschedule_cal_event ends with the error that   *)
(* the event was cancelled and the new booking failed, the original        *)
(* booking no longer exists and no booking was created, whatever the book  *)
(* call did.                                                               *)
(***************************************************************************)
C7_CancelledAndNothingBooked ==
  FailedInBook => RescheduleId \notin bookings /\ bookings = bookings0 \ {RescheduleId}

(***************************************************************************)
(* C7 as amended.  After that error the original booking no longer exists, *)
(* and no booking was created unless the remote service carried out the    *)
(* POST and its answer was lost, in which case exactly one was.            *)
(***************************************************************************)
C7_CancelledAndNothingBookedUnlessAnswerLost ==
  FailedInBook =>
    /\ RescheduleId \notin bookings
    /\ \/ bookings = bookings0 \ {RescheduleId}
       \/ /\ "POST" \in lost
          /\ bookings = (bookings0 \ {RescheduleId}) \cup {NewId(created - 1)}
          /\ NewId(created - 1) \notin bookings0

C7_Witness ==
  /\ FailedInBook
  /\ RescheduleId \in bookings0
  /\ Len(HttpCalls) = 3
  /\ bookings = bookings0 \ {RescheduleId}

CaseClasses == { {"x@y.com", "X@y.com", "X@Y.COM"}, {"a@b.com"} }

EqualIgnoringCase(a, b) == a = b \/ \E c \in CaseClasses : a \in c /\ b \in c

AttendeesOf(booking) ==
  IF Has(booking, "attendees") /\ booking.v.attendees.t = "list"
    THEN booking.v.attendees.v ELSE <<>>

HasAttendee(booking, email) ==
  \E i \in 1..Len(AttendeesOf(booking)) :
    LET a == AttendeesOf(booking)[i] IN
      /\ Has(a, "email")
      /\ a.v.email.t = "str"
      /\ EqualIgnoringCase(a.v.email.v, email)

RECURSIVE Emails(_)
Emails(atts) ==
  IF atts = <<>> THEN <<>>
  ELSE IF Has(Head(atts), "email") /\ Head(atts).v.email.t = "str"
          /\ Head(atts).v.email.v # ""
    THEN <<Head(atts).v.email>> \o Emails(Tail(atts))
    ELSE Emails(Tail(atts))

Field(booking, k) == IF Has(booking, k) THEN booking.v[k] ELSE None

Projection(booking) ==
  Obj([id          |-> Field(booking, "id"),
       title       |-> Field(booking, "title"),
       description |-> Field(booking, "description"),
       startTime   |-> Field(booking, "startTime"),
       endTime     |-> Field(booking, "endTime"),
       attendees   |-> List(Emails(AttendeesOf(booking)))])

RECURSIVE Wanted(_, _)
Wanted(bs, email) ==
  IF bs = <<>> THEN <<>>
  ELSE IF email = None \/ HasAttendee(Head(bs), email.v)
    THEN <<Projection(Head(bs))>> \o Wanted(Tail(bs), email)
    ELSE Wanted(Tail(bs), email)

\* The remote list arrived, and the email is a given one or none.
ListedBookings ==
  /\ pc = "done"
  /\ Invoked("list_cal_events")
  /\ trace[1].v.email # Str("")
  /\ Len(GatewayReturns) = 1
  /\ Has(GatewayReturns[1].v, "bookings")
  /\ ~Has(GatewayReturns[1].v, "error")

(***************************************************************************)
(* C8.  list_cal_events with an email returns, in the order of the remote  *)
(* list and each at most once, exactly the bookings with an attendee whose *)
(* email equals the given one ignoring case; with no email it returns all  *)
(* of them; every returned booking is projected to {id, title,             *)
(* description, startTime, endTime, attendees: the attendees' emails}.     *)
(***************************************************************************)
C8_FilterAndProject ==
  ListedBookings =>
    /\ result.t = "jsontext"
    /\ result.v = Obj([bookings |->
         List(Wanted(GatewayReturns[1].v.v.bookings.v, trace[1].v.email))])

CancelReportedFailure ==
  /\ pc = "done"
  /\ Invoked("reschedule_cal_event")
  /\ Len(CancelReturns) = 1
  /\ ~CancelReportedSuccess

(***************************************************************************)
(* C9.  When Cancel does not report success, reschedule_cal_event ends     *)
(* with an error envelope that carries the failure detail Cancel reported, *)
(* and Book is never invoked.                                              *)
(***************************************************************************)
C9_CancelFailureIsDescribed ==
  CancelReportedFailure =>
    /\ IsErrorEnvelope(result)
    /\ IsErrorEnvelope(CancelReturns[1].v)
    /\ Contains(ErrorText(result), ErrorText(CancelReturns[1].v))
    /\ BookCalls = <<>>

Mapped(o, r) ==
  IF o.kind = "failure"
    THEN r = Obj([error |-> Str("Request error: " \o o.detail)])
  ELSE IF o.status >= 400
    THEN r = Obj([error |-> Str("HTTP error: " \o ToString(o.status) \o " - " \o o.text)])
  ELSE IF o.status = 204
    THEN r = Obj([message |-> Str("Operation successful, no content returned.")])
  ELSE r = o.body

(***************************************************************************)
(* C10.  With a credential, every gateway request issues exactly one HTTP  *)
(* call and maps its outcome to one result: 204 to the no-content message, *)
(* a status >= 400 to "HTTP error: <status> - <body text>", a transport    *)
(* failure to "Request error: <detail>", anything else to the JSON body.   *)
(***************************************************************************)
C10_OneCallOneResult ==
  Truthy(CAL_API_KEY_ENV) =>
    /\ Len(HttpCalls) = Len(GatewayCalls)
    /\ Len(Outcomes) = Len(GatewayReturns)
    /\ Len(HttpCalls) - Len(Outcomes) = (IF pc \in {"wait", "recv"} THEN 1 ELSE 0)
    /\ \A i \in 1..Len(GatewayReturns) : Mapped(Outcomes[i].v, GatewayReturns[i].v)

C10_Witness ==
  /\ pc = "done"
  /\ Len(GatewayReturns) = 3
  /\ Outcomes[1].v.status = 201
  /\ Outcomes[2].v.status = 204
  /\ Outcomes[3].v.status = 500
  /\ Mapped(Outcomes[2].v, GatewayReturns[2].v)

====
